---- MODULE Spec2Model ----
(***************************************************************************)
(* Model of tools/publisher/src/subcommand/fix_manifests/validate.rs:      *)
(* the pre-fix version validation over a BTreeMap<String, Version> and     *)
(* the post-fix validation that delegates to package discovery.            *)
(*                                                                         *)
(* Package names are sequences of one-character strings, so that           *)
(* str::starts_with and the byte-wise ordering of the BTreeMap keys are    *)
(* computed, not assumed.  Versions are <<major, minor, patch>>.           *)
(***************************************************************************)
EXTENDS Integers, Sequences, FiniteSets, TLC

VARIABLES versions, pc, result, discover_script, discover_calls, post_result

vars == <<versions, pc, result, discover_script, discover_calls, post_result>>

----------------------------------------------------------------------------
(* Bounds *)

\* patch numbers range over 0..MaxPatch
MaxPatch == 1

\* number of successive answers of the discovery collaborator that are fixed
\* in advance (what it would return on a 1st, 2nd, ... invocation)
MaxInvocations == 2

----------------------------------------------------------------------------
(* Strings *)

Digits == <<"0", "1", "2", "3", "4", "5", "6", "7", "8", "9">>

Lower == <<"a", "b", "c", "d", "e", "f", "g", "h", "i", "j", "k", "l", "m",
           "n", "o", "p", "q", "r", "s", "t", "u", "v", "w", "x", "y", "z">>

\* the byte value of each character used in crate names (ASCII)
ByteTable ==
    [c \in {"-"} \cup {Digits[i] : i \in 1..Len(Digits)}
                \cup {Lower[i] : i \in 1..Len(Lower)} |->
        IF c = "-" THEN 45
        ELSE IF \E i \in 1..Len(Digits) : Digits[i] = c
             THEN 47 + (CHOOSE i \in 1..Len(Digits) : Digits[i] = c)
             ELSE 96 + (CHOOSE i \in 1..Len(Lower) : Lower[i] = c)]

Byte(c) == ByteTable[c]

\* str::starts_with
StartsWith(s, prefix) ==
    /\ Len(prefix) <= Len(s)
    /\ \A i \in 1..Len(prefix) : s[i] = prefix[i]

\* Ord for String: byte-wise lexicographic, a proper prefix is smaller
RECURSIVE StrLess(_, _)
StrLess(a, b) ==
    IF b = <<>> THEN FALSE
    ELSE IF a = <<>> THEN TRUE
    ELSE IF Byte(Head(a)) # Byte(Head(b)) THEN Byte(Head(a)) < Byte(Head(b))
    ELSE StrLess(Tail(a), Tail(b))

AwsConfig      == <<"a","w","s","-","c","o","n","f","i","g">>
AwsSmithyTypes == <<"a","w","s","-","s","m","i","t","h","y","-","t","y","p","e","s">>
AwsSmithyHttp  == <<"a","w","s","-","s","m","i","t","h","y","-","h","t","t","p">>
AwsSmithyClient == <<"a","w","s","-","s","m","i","t","h","y","-","c","l","i","e","n","t">>
AwsSdkS3       == <<"a","w","s","-","s","d","k","-","s","3">>
AwsTypes       == <<"a","w","s","-","t","y","p","e","s">>
Anyhow         == <<"a","n","y","h","o","w">>
Tracing        == <<"t","r","a","c","i","n","g">>

SmithyPrefix == <<"a","w","s","-","s","m","i","t","h","y","-">>
AwsSdkPrefix == <<"a","w","s","-","s","d","k","-">>
AwsPrefix    == <<"a","w","s","-">>

\* the crate names the caller may load
PackageNames ==
    {AwsConfig, AwsSmithyTypes, AwsSmithyHttp, AwsSmithyClient, AwsSdkS3,
     AwsTypes, Anyhow, Tracing}

\* semver::Version values (major, minor, patch)
Versions == {<<0, 5, p>> : p \in 0..MaxPatch}

----------------------------------------------------------------------------
(* Option and Result values *)

None == <<>>
Some(v) == <<v>>

NoName == <<>>

Ok == [kind |-> "Ok", name |-> NoName, expected |-> None, actual |-> None]

NotRun == [kind |-> "NotRun", name |-> NoName, expected |-> None, actual |-> None]

\* anyhow!("`<name>` crate missing")
CrateMissing(name) ==
    [kind |-> "CrateMissing", name |-> name, expected |-> None, actual |-> None]

\* "Crate named `{}` should be at version `{}` but is at `{}`"
VersionMismatch(name, expected, actual) ==
    [kind |-> "VersionMismatch", name |-> name,
     expected |-> Some(expected), actual |-> Some(actual)]

----------------------------------------------------------------------------
(* PackageCategory (crate::package) *)

\* longest matching prefix wins: the runtime prefix is checked before the
\* distribution prefix
from_package_name(name) ==
    IF StartsWith(name, SmithyPrefix) THEN "SmithyRuntime"
    ELSE IF StartsWith(name, AwsPrefix) THEN "DistributionSurface"
    ELSE "Other"

is_sdk(category) == category = "DistributionSurface"

----------------------------------------------------------------------------
(* BTreeMap<String, Version> *)

\* BTreeMap::get
Get(m, name) == IF name \in DOMAIN m THEN Some(m[name]) ELSE None

\* BTreeMap::insert
Insert(m, name, version) ==
    [n \in DOMAIN m \cup {name} |-> IF n = name THEN version ELSE m[n]]

\* the String order on the crate names, tabulated
KeyOrder == [a \in PackageNames |-> [b \in PackageNames |-> StrLess(a, b)]]

KeyLess(a, b) == KeyOrder[a][b]

RECURSIVE SortedSeq(_)
SortedSeq(S) ==
    IF S = {} THEN <<>>
    ELSE LET least == CHOOSE a \in S : \A b \in S \ {a} : KeyLess(a, b)
         IN  <<least>> \o SortedSeq(S \ {least})

RECURSIVE Reverse(_)
Reverse(s) == IF s = <<>> THEN <<>> ELSE Reverse(Tail(s)) \o <<Head(s)>>

\* mutant: the keys are visited in descending order
IterDescending(m) == Reverse(SortedSeq(DOMAIN m))

\* iteration of `for (name, version) in versions`: ascending key order
Iter(m) == SortedSeq(DOMAIN m)

----------------------------------------------------------------------------
(* validate_before_fixes *)

confirm_version(name, expected, actual) ==
    IF expected # actual THEN VersionMismatch(name, expected, actual) ELSE Ok

\* mutant: the smithy branch uses the sdk version when there is one
for_body_wrong_anchor(name, version, maybe_sdk_version, expected_smithy_version) ==
    LET category == from_package_name(name) IN
    IF category = "SmithyRuntime"
    THEN confirm_version(name,
             IF maybe_sdk_version # None THEN maybe_sdk_version[1]
                                         ELSE expected_smithy_version,
             version)
    ELSE IF maybe_sdk_version # None
         THEN IF is_sdk(category)
              THEN confirm_version(name, maybe_sdk_version[1], version)
              ELSE Ok
         ELSE IF is_sdk(category) THEN CrateMissing(AwsConfig) ELSE Ok

\* mutant: a missing aws-config fails every package that is not smithy
for_body_bail_always(name, version, maybe_sdk_version, expected_smithy_version) ==
    LET category == from_package_name(name) IN
    IF category = "SmithyRuntime"
    THEN confirm_version(name, expected_smithy_version, version)
    ELSE IF maybe_sdk_version # None
         THEN IF is_sdk(category)
              THEN confirm_version(name, maybe_sdk_version[1], version)
              ELSE Ok
         ELSE CrateMissing(AwsConfig)

\* mutant: a missing aws-config is tolerated
for_body_no_bail(name, version, maybe_sdk_version, expected_smithy_version) ==
    LET category == from_package_name(name) IN
    IF category = "SmithyRuntime"
    THEN confirm_version(name, expected_smithy_version, version)
    ELSE IF maybe_sdk_version # None
         THEN IF is_sdk(category)
              THEN confirm_version(name, maybe_sdk_version[1], version)
              ELSE Ok
         ELSE Ok

\* mutant: sdk packages are not compared when aws-config is present
for_body_no_sdk_compare(name, version, maybe_sdk_version, expected_smithy_version) ==
    LET category == from_package_name(name) IN
    IF category = "SmithyRuntime"
    THEN confirm_version(name, expected_smithy_version, version)
    ELSE IF maybe_sdk_version # None
         THEN Ok
         ELSE IF is_sdk(category) THEN CrateMissing(AwsConfig) ELSE Ok

\* mutant: the smithy comparison reports the versions swapped
for_body_swapped(name, version, maybe_sdk_version, expected_smithy_version) ==
    LET category == from_package_name(name) IN
    IF category = "SmithyRuntime"
    THEN confirm_version(name, version, expected_smithy_version)
    ELSE IF maybe_sdk_version # None
         THEN IF is_sdk(category)
              THEN confirm_version(name, maybe_sdk_version[1], version)
              ELSE Ok
         ELSE IF is_sdk(category) THEN CrateMissing(AwsConfig) ELSE Ok

\* one iteration of the loop: the Result of the checks made for one entry
for_body(name, version, maybe_sdk_version, expected_smithy_version) ==
    LET category == from_package_name(name) IN
    IF category = "SmithyRuntime"
    THEN confirm_version(name, expected_smithy_version, version)
    ELSE IF maybe_sdk_version # None
         THEN IF is_sdk(category)
              THEN confirm_version(name, maybe_sdk_version[1], version)
              ELSE Ok
         ELSE IF is_sdk(category) THEN CrateMissing(AwsConfig) ELSE Ok

\* the loop: `?` and `bail!` leave it at the first entry whose check fails
RECURSIVE for_loop(_, _, _, _)
for_loop(m, keys, maybe_sdk_version, expected_smithy_version) ==
    IF keys = <<>> THEN Ok
    ELSE LET r == for_body(Head(keys), m[Head(keys)],
                           maybe_sdk_version, expected_smithy_version)
         IN  IF r.kind # "Ok" THEN r
             ELSE for_loop(m, Tail(keys), maybe_sdk_version, expected_smithy_version)

\* mutant: aws-smithy-types is looked up only when a smithy package is met
RECURSIVE lazy_loop(_, _)
lazy_loop(m, keys) ==
    IF keys = <<>> THEN Ok
    ELSE LET name == Head(keys)
             r == IF from_package_name(name) = "SmithyRuntime"
                     /\ Get(m, AwsSmithyTypes) = None
                  THEN CrateMissing(AwsSmithyTypes)
                  ELSE for_body(name, m[name], Get(m, AwsConfig),
                                IF Get(m, AwsSmithyTypes) = None
                                THEN m[name] ELSE m[AwsSmithyTypes])
         IN  IF r.kind # "Ok" THEN r ELSE lazy_loop(m, Tail(keys))

validate_before_fixes_lazy(m) == lazy_loop(m, Iter(m))

validate_before_fixes(m) ==
    LET maybe_sdk_version == Get(m, AwsConfig)
        maybe_smithy_version == Get(m, AwsSmithyTypes)
    IN  IF maybe_smithy_version = None
        THEN CrateMissing(AwsSmithyTypes)
        ELSE for_loop(m, Iter(m), maybe_sdk_version, maybe_smithy_version[1])

----------------------------------------------------------------------------
(* validate_after_fixes *)

DiscoverOk(batches) == [kind |-> "Ok", batches |-> batches, error |-> "none"]

DiscoverErr(e) == [kind |-> "Err", batches |-> <<>>, error |-> e]

\* what discover_and_validate_package_batches may return
DiscoverOutcomes ==
    {DiscoverOk(b) : b \in {<<>>, <<"batch">>}}
        \cup {DiscoverErr(e) : e \in {"cycle", "unresolved"}}

PostOk == [kind |-> "Ok", error |-> "none"]

PostNotRun == [kind |-> "NotRun", error |-> "none"]

PostErr(e) == [kind |-> "Err", error |-> e]

\* mutant: a failed discovery is tried once more
validate_after_fixes_retry(script) ==
    IF script[1].kind = "Err" /\ Len(script) > 1
    THEN [calls |-> 2,
          result |-> IF script[2].kind = "Err" THEN PostErr(script[2].error)
                     ELSE PostOk]
    ELSE [calls |-> 1,
          result |-> IF script[1].kind = "Err" THEN PostErr(script[1].error)
                     ELSE PostOk]

\* script[i] is what the collaborator returns on its i-th invocation.
\* `discover(..).await?` returns the error of the first invocation, otherwise
\* drops the batches and returns Ok(())
validate_after_fixes(script) ==
    [calls |-> 1,
     result |-> IF script[1].kind = "Err" THEN PostErr(script[1].error)
                ELSE PostOk]

----------------------------------------------------------------------------
(* The state machine *)

EmptyMap == [n \in {} |-> <<0, 5, 0>>]

Init ==
    /\ versions = EmptyMap
    /\ pc = "load"
    /\ result = NotRun
    /\ discover_script = <<>>
    /\ discover_calls = 0
    /\ post_result = PostNotRun

\* the caller loads one manifest version into the map
LoadVersion ==
    /\ pc = "load"
    /\ \E name \in PackageNames, version \in Versions :
           versions' = Insert(versions, name, version)
    /\ UNCHANGED <<pc, result, discover_script, discover_calls, post_result>>

ValidateBeforeFixes ==
    /\ pc = "load"
    /\ result' = validate_before_fixes(versions)
    /\ pc' = "pre_done"
    /\ UNCHANGED <<versions, discover_script, discover_calls, post_result>>

\* runs once the pre-fix validation has succeeded and the manifests were fixed
ValidateAfterFixes ==
    /\ pc = "pre_done"
    /\ result = Ok
    /\ \E script \in [1..MaxInvocations -> DiscoverOutcomes] :
           LET r == validate_after_fixes(script) IN
           /\ discover_script' = script
           /\ discover_calls' = discover_calls + r.calls
           /\ post_result' = r.result
    /\ pc' = "post_done"
    /\ UNCHANGED <<versions, result>>

Next == LoadVersion \/ ValidateBeforeFixes \/ ValidateAfterFixes

Spec == Init /\ [][Next]_vars

----------------------------------------------------------------------------
(* Vocabulary of the properties, stated on names and versions directly *)

Validated == pc # "load"

Loaded(n) == n \in DOMAIN versions

\* runtime-grouped: name prefixed `aws-smithy-`
IsRuntimeGrouped(n) == StartsWith(n, SmithyPrefix)

\* distribution surface: name prefixed `aws-` but not `aws-smithy-`
IsSurface(n) == StartsWith(n, AwsPrefix) /\ ~StartsWith(n, SmithyPrefix)

\* names matching no tracked prefix
IsUntracked(n) == ~StartsWith(n, AwsPrefix)

\* runtime-grouped packages whose version differs from the runtime root's
\* (used only where the runtime root is loaded)
RuntimeMismatched ==
    {n \in DOMAIN versions :
        IsRuntimeGrouped(n) /\ versions[n] # versions[AwsSmithyTypes]}

\* distribution-surface packages that fail their check
SurfaceFailing ==
    {n \in DOMAIN versions :
        IsSurface(n) /\ (~Loaded(AwsConfig) \/ versions[n] # versions[AwsConfig])}

Failing == RuntimeMismatched \cup SurfaceFailing

\* the error of the check of one failing package
ErrorOf(n) ==
    IF IsRuntimeGrouped(n)
    THEN VersionMismatch(n, versions[AwsSmithyTypes], versions[n])
    ELSE IF Loaded(AwsConfig)
         THEN VersionMismatch(n, versions[AwsConfig], versions[n])
         ELSE CrateMissing(AwsConfig)

UntrackedNames == {n \in PackageNames : IsUntracked(n)}

\* the map without its untracked entries
WithoutUntracked(m) == [n \in {k \in DOMAIN m : ~IsUntracked(k)} |-> m[n]]

\* the map with the entries of extra added
Extended(m, extra) ==
    [n \in DOMAIN m \cup DOMAIN extra |->
        IF n \in DOMAIN extra THEN extra[n] ELSE m[n]]

----------------------------------------------------------------------------
(* Properties *)

\* C1: a map without `aws-smithy-types` is rejected with the
\* "`aws-smithy-types` crate missing" error, whatever else it holds.
C1_MissingRuntimeRoot ==
    (Validated /\ ~Loaded(AwsSmithyTypes)) => result = CrateMissing(AwsSmithyTypes)

\* C1 witness: the runtime root and aws-config are both missing while
\* an sdk package and two smithy packages of different versions are loaded.
C1_Witness ==
    /\ Validated
    /\ ~Loaded(AwsSmithyTypes) /\ ~Loaded(AwsConfig)
    /\ Loaded(AwsSdkS3) /\ Loaded(AwsSmithyHttp) /\ Loaded(AwsSmithyClient)
    /\ versions[AwsSmithyHttp] # versions[AwsSmithyClient]
    /\ result = CrateMissing(AwsSmithyTypes)

\* C2 (as stated): whenever exactly one runtime-grouped package differs
\* from the runtime root, the error is the mismatch naming that package.
C2_Original ==
    (Validated /\ Loaded(AwsSmithyTypes) /\ Cardinality(RuntimeMismatched) = 1)
        => \A p \in RuntimeMismatched :
               result = VersionMismatch(p, versions[AwsSmithyTypes], versions[p])

\* C2 (amended): whenever exactly one runtime-grouped package differs from
\* the runtime root, validation fails; the error is the mismatch naming that
\* package, with the root's version as expected and the package's as actual,
\* provided no failing distribution-surface package precedes it in name order.
C2_MismatchNamed ==
    (Validated /\ Loaded(AwsSmithyTypes) /\ Cardinality(RuntimeMismatched) = 1)
        => /\ result.kind # "Ok"
           /\ \A p \in RuntimeMismatched :
                  (\A q \in SurfaceFailing : KeyLess(p, q))
                      => result = VersionMismatch(p, versions[AwsSmithyTypes],
                                                  versions[p])

\* C2 witness: only aws-smithy-client is mismatched, aws-types fails after it.
C2_Witness ==
    /\ Validated /\ Loaded(AwsSmithyTypes)
    /\ RuntimeMismatched = {AwsSmithyClient}
    /\ AwsTypes \in SurfaceFailing
    /\ result.kind = "VersionMismatch" /\ result.name = AwsSmithyClient

\* C3 (as stated): runtime root present, a distribution-surface package
\* present, aws-config absent: the error is "`aws-config` crate missing".
C3_Original ==
    (/\ Validated /\ Loaded(AwsSmithyTypes) /\ ~Loaded(AwsConfig)
     /\ \E n \in DOMAIN versions : IsSurface(n))
        => result = CrateMissing(AwsConfig)

\* C3 (amended): in such a map validation fails, and the error is
\* "`aws-config` crate missing" unless a mismatched runtime-grouped package
\* precedes every distribution-surface package in name order.
C3_MissingDistributionRoot ==
    (/\ Validated /\ Loaded(AwsSmithyTypes) /\ ~Loaded(AwsConfig)
     /\ \E n \in DOMAIN versions : IsSurface(n))
        => /\ result.kind # "Ok"
           /\ IF \A p \in RuntimeMismatched :
                    \E q \in DOMAIN versions : IsSurface(q) /\ KeyLess(q, p)
              THEN result = CrateMissing(AwsConfig)
              ELSE /\ result.kind = "VersionMismatch"
                   /\ result.name \in RuntimeMismatched

\* C3 witness: aws-config absent, aws-sdk-s3 loaded before a mismatched
\* smithy package.
C3_Witness ==
    /\ Validated /\ Loaded(AwsSmithyTypes) /\ ~Loaded(AwsConfig)
    /\ Loaded(AwsSdkS3) /\ Loaded(AwsTypes)
    /\ RuntimeMismatched # {}
    /\ result = CrateMissing(AwsConfig)

\* C4 (as stated): runtime root present, every runtime-grouped package
\* at the root's version, no distribution-surface package without aws-config:
\* validation succeeds.
C4_Original ==
    (/\ Validated /\ Loaded(AwsSmithyTypes)
     /\ RuntimeMismatched = {}
     /\ (\E n \in DOMAIN versions : IsSurface(n)) => Loaded(AwsConfig))
        => result = Ok

\* C4 (amended): ... and every distribution-surface package has the
\* version of aws-config: validation succeeds.
C4_UniformGroupsSucceed ==
    (/\ Validated /\ Loaded(AwsSmithyTypes)
     /\ RuntimeMismatched = {}
     /\ (\E n \in DOMAIN versions : IsSurface(n)) => Loaded(AwsConfig)
     /\ \A n \in DOMAIN versions :
            IsSurface(n) => versions[n] = versions[AwsConfig])
        => result = Ok

\* C4 witness: both groups loaded and uniform, at different versions,
\* together with an untracked package.
C4_Witness ==
    /\ Validated /\ Loaded(AwsSmithyTypes) /\ Loaded(AwsConfig)
    /\ Loaded(AwsSdkS3) /\ Loaded(AwsTypes) /\ Loaded(AwsSmithyHttp)
    /\ versions[AwsConfig] # versions[AwsSmithyTypes]
    /\ Loaded(Tracing)
    /\ result = Ok

\* C5: success implies the group-version invariant: the runtime root is
\* present, every runtime-grouped package has its version, and every
\* distribution-surface package has the version of aws-config (present).
C5_SuccessImpliesInvariant ==
    (Validated /\ result = Ok)
        => /\ Loaded(AwsSmithyTypes)
           /\ \A n \in DOMAIN versions :
                  IsRuntimeGrouped(n) => versions[n] = versions[AwsSmithyTypes]
           /\ \A n \in DOMAIN versions :
                  IsSurface(n) => /\ Loaded(AwsConfig)
                                  /\ versions[n] = versions[AwsConfig]

\* C5 witness: a successful validation of a map holding sdk and smithy crates.
C5_Witness ==
    /\ Validated /\ result = Ok
    /\ Loaded(AwsSdkS3) /\ Loaded(AwsTypes) /\ Loaded(AwsSmithyClient)
    /\ Loaded(Tracing)

\* C6: untracked packages never change the outcome: the result is that of
\* the map without them, and adding any set of untracked packages with any
\* versions gives the same result (same success, same error).
C6_UntrackedIgnored ==
    Validated
        => /\ result = validate_before_fixes(WithoutUntracked(versions))
           /\ \A S \in SUBSET UntrackedNames :
                  \A extra \in [S -> Versions] :
                      validate_before_fixes(Extended(versions, extra)) = result

\* C6 witness: both untracked packages loaded at different versions, no
\* aws-config, and the validation succeeded.
C6_Witness ==
    /\ Validated /\ result = Ok
    /\ Loaded(Anyhow) /\ Loaded(Tracing) /\ versions[Anyhow] # versions[Tracing]
    /\ ~Loaded(AwsConfig) /\ Loaded(AwsSmithyHttp)

\* C7: with two or more failing packages the reported error is the error
\* of the failing package whose name is least.
C7_FailFastOrder ==
    (Validated /\ Loaded(AwsSmithyTypes) /\ Cardinality(Failing) >= 2)
        => \E p \in Failing :
               /\ \A q \in Failing \ {p} : KeyLess(p, q)
               /\ result = ErrorOf(p)

\* C7 witness: three packages fail; the least, aws-smithy-client, is reported.
C7_Witness ==
    /\ Validated /\ Loaded(AwsSmithyTypes)
    /\ Failing = {AwsSmithyHttp, AwsSmithyClient, AwsTypes}
    /\ result = VersionMismatch(AwsSmithyClient, versions[AwsSmithyTypes],
                                versions[AwsSmithyClient])

\* C8 (as the doc comment states): success implies that every package
\* prefixed `aws-` but not `aws-sdk-` has the version of the `aws-smithy-`
\* packages.
C8_DocComment ==
    (Validated /\ result = Ok)
        => \A n \in DOMAIN versions :
               (StartsWith(n, AwsPrefix) /\ ~StartsWith(n, AwsSdkPrefix))
                   => versions[n] = versions[AwsSmithyTypes]

\* C9: validate_after_fixes invokes discovery exactly once and returns
\* success iff that invocation succeeded, and the same error if it failed.
C9_PostFixDelegates ==
    pc = "post_done"
        => /\ discover_calls = 1
           /\ discover_script[1].kind = "Ok" => post_result = PostOk
           /\ discover_script[1].kind = "Err"
                  => post_result = PostErr(discover_script[1].error)

\* C9 witness: the first invocation fails although a second would succeed.
C9_Witness ==
    /\ pc = "post_done"
    /\ discover_script[1].kind = "Err" /\ discover_script[2].kind = "Ok"
    /\ post_result.kind = "Err"

\* C10: an `aws-smithy-` package is compared with the runtime root only:
\* a mismatch naming it expects the root's version, it is never named when
\* it has the root's version, and a map whose only `aws-` packages are
\* `aws-smithy-` ones never fails for the missing aws-config.
C10_RuntimePrefixWins ==
    (Validated /\ Loaded(AwsSmithyTypes))
        => /\ (result.kind = "VersionMismatch" /\ IsRuntimeGrouped(result.name))
                  => /\ result.expected = Some(versions[AwsSmithyTypes])
                     /\ versions[result.name] # versions[AwsSmithyTypes]
           /\ (\A n \in DOMAIN versions :
                   StartsWith(n, AwsPrefix) => IsRuntimeGrouped(n))
                  => /\ result # CrateMissing(AwsConfig)
                     /\ RuntimeMismatched = {} => result = Ok

\* C10 witness: aws-config is loaded at another version than the runtime
\* root, and the smithy packages at the root's version pass.
C10_Witness ==
    /\ Validated /\ Loaded(AwsSmithyTypes) /\ Loaded(AwsConfig)
    /\ versions[AwsConfig] # versions[AwsSmithyTypes]
    /\ Loaded(AwsSmithyHttp) /\ Loaded(AwsSmithyClient)
    /\ result = Ok

====
